---- MODULE Spec2Model ----
(***************************************************************************)
(* fastapi-generic-permissions: the permission registry (_Permission), the *)
(* guards it manufactures (check_permission closures) and the requests the *)
(* host pipeline drives through the guards of a route.                     *)
(***************************************************************************)
EXTENDS Integers, Sequences, FiniteSets, TLC

VARIABLES
    registries,   \* registries[r]: the _default_messages dict of the r-th _Permission
    calls,        \* history: every set_default_message call made so far, in order
    guards,       \* guards[g]: the closure of the g-th check_permission
    requests      \* requests[q]: the request in slot q and how far the host has driven it

vars == <<registries, calls, guards, requests>>

----------------------------------------------------------------------------
(* Status codes named in the sources. *)
HTTP_200_OK == 200
HTTP_401_UNAUTHORIZED == 401
HTTP_403_FORBIDDEN == 403
HTTP_404_NOT_FOUND == 404
HTTP_418_IM_A_TEAPOT == 418

(* Bound of the model: set_default_message calls in one behaviour. *)
MaxSets == 2

(* Optional[...]: None is the empty tuple, a value v is <<v>>.  An omitted
   keyword argument is written Omitted. *)
None == <<>>
Omitted == <<>>
Some(v) == <<v>>

StatusCodes == {HTTP_403_FORBIDDEN, HTTP_404_NOT_FOUND, HTTP_418_IM_A_TEAPOT}
GuardMessages == {None, Some(""), Some("This is not allowed")}
DefaultTexts == {"", "Only tea may be brewed"}
(* The predicates of the sources: a plain function and an async function that
   returns without awaiting (tests), and an async function that depends on
   get_current_user and awaits once, as get_current_user does (example). *)
PredicateKinds == {"def", "async def", "async def, Depends"}
PredicateResults == {"True", "False", "raise"}

(* The scopes the specifications explore: how many registries and guards the
   application creates, how many guards a route carries, which request slots
   are in flight together, and the arguments the calls draw from. *)
ScopeApp ==
    [registries |-> 1, guards |-> 1, deps |-> 1, slots |-> {1},
     set_codes |-> StatusCodes, set_texts |-> DefaultTexts,
     guard_codes |-> {Omitted} \cup {Some(c) : c \in StatusCodes}]

ScopeRegistries ==
    [registries |-> 2, guards |-> 1, deps |-> 1, slots |-> {1},
     set_codes |-> StatusCodes \cup {0}, set_texts |-> DefaultTexts,
     guard_codes |-> {Some(HTTP_403_FORBIDDEN)}]

ScopeRoute ==
    [registries |-> 1, guards |-> 2, deps |-> 2, slots |-> {1},
     set_codes |-> {HTTP_403_FORBIDDEN, HTTP_418_IM_A_TEAPOT},
     set_texts |-> {"Only tea may be brewed"},
     guard_codes |-> {Some(c) : c \in StatusCodes}]

ScopePair ==
    [registries |-> 1, guards |-> 2, deps |-> 1, slots |-> {1, 2},
     set_codes |-> {HTTP_403_FORBIDDEN},
     set_texts |-> {"Only tea may be brewed"},
     guard_codes |-> {Some(HTTP_403_FORBIDDEN), Some(HTTP_418_IM_A_TEAPOT)}]

ReqIds == {1, 2}

----------------------------------------------------------------------------
(* Python dict operations used by the code. *)
DictGet(d, k, default) == IF k \in DOMAIN d THEN d[k] ELSE default

DictSet(d, k, v) == [x \in (DOMAIN d) \cup {k} |-> IF x = k THEN v ELSE d[x]]

(* Truthiness of an Optional[str]: None and "" are falsy. *)
Truthy(message) == message # None /\ message[1] # ""

----------------------------------------------------------------------------
(* _Permission.__init__: the two built-in defaults. *)
Permission_init ==
    (HTTP_403_FORBIDDEN :> "Forbidden") @@ (HTTP_404_NOT_FOUND :> "Not Found")

(* Faulty variant: dict.setdefault, which keeps an entry that exists. *)
set_default_message_setdefault(regs, self, status_code, message) ==
    [regs EXCEPT ![self] = IF status_code \in DOMAIN @ THEN @
                           ELSE DictSet(@, status_code, message)]

(* Faulty variant: _default_messages as a class attribute, one dict shared
   by every registry. *)
set_default_message_shared(regs, self, status_code, message) ==
    [r \in DOMAIN regs |-> DictSet(regs[r], status_code, message)]

(* _Permission.set_default_message on registry `self` of the list `regs`. *)
set_default_message(regs, self, status_code, message) ==
    [regs EXCEPT ![self] = DictSet(@, status_code, message)]

(* Faulty variant: the default message is resolved when the guard is built. *)
Permission_call_eager(self, is_permitted, message, status_code) ==
    LET code == IF status_code = Omitted THEN HTTP_403_FORBIDDEN
                ELSE status_code[1]
    IN [self |-> self, is_permitted |-> is_permitted,
        message |-> IF Truthy(message) THEN message
                    ELSE Some(DictGet(registries[self], code, "Error")),
        status_code |-> code]

(* _Permission.__call__: the closure check_permission captures.  message and
   status_code are the keyword arguments as passed; an omitted one takes the
   default of the signature (None, HTTP_403_FORBIDDEN). *)
Permission_call(self, is_permitted, message, status_code) ==
    [self |-> self, is_permitted |-> is_permitted,
     message |-> message,
     status_code |-> IF status_code = Omitted THEN HTTP_403_FORBIDDEN
                     ELSE status_code[1]]

(* Faulty variant: the status code of the signature's default is raised. *)
check_permission_fixed_status(defaults, message, status_code, permitted) ==
    IF ~permitted
    THEN [raised |-> TRUE,
          status_code |-> HTTP_403_FORBIDDEN,
          detail |-> IF Truthy(message) THEN message[1]
                     ELSE DictGet(defaults, status_code, "Error"),
          defaults |-> defaults]
    ELSE [raised |-> FALSE, status_code |-> 0, detail |-> "",
          defaults |-> defaults]

(* Faulty variant: the test is inverted (if permitted). *)
check_permission_inverted(defaults, message, status_code, permitted) ==
    IF permitted
    THEN [raised |-> TRUE,
          status_code |-> status_code,
          detail |-> IF Truthy(message) THEN message[1]
                     ELSE DictGet(defaults, status_code, "Error"),
          defaults |-> defaults]
    ELSE [raised |-> FALSE, status_code |-> 0, detail |-> "",
          defaults |-> defaults]

(* Faulty variant: message is tested with "is not None", so "" is used. *)
check_permission_none_check(defaults, message, status_code, permitted) ==
    IF ~permitted
    THEN [raised |-> TRUE,
          status_code |-> status_code,
          detail |-> IF message # None THEN message[1]
                     ELSE DictGet(defaults, status_code, "Error"),
          defaults |-> defaults]
    ELSE [raised |-> FALSE, status_code |-> 0, detail |-> "",
          defaults |-> defaults]

(* Faulty variant: dict.setdefault for the lookup, which inserts "Error". *)
check_permission_setdefault(defaults, message, status_code, permitted) ==
    IF ~permitted
    THEN [raised |-> TRUE,
          status_code |-> status_code,
          detail |-> IF Truthy(message) THEN message[1]
                     ELSE DictGet(defaults, status_code, "Error"),
          defaults |-> IF Truthy(message) \/ status_code \in DOMAIN defaults
                       THEN defaults
                       ELSE DictSet(defaults, status_code, "Error")]
    ELSE [raised |-> FALSE, status_code |-> 0, detail |-> "",
          defaults |-> defaults]

(* check_permission(permitted) of a guard whose registry's dict is `defaults`:
   what it raises, if anything, and the dict it leaves behind. *)
check_permission(defaults, message, status_code, permitted) ==
    IF ~permitted
    THEN [raised |-> TRUE,
          status_code |-> status_code,
          detail |-> IF Truthy(message) THEN message[1]
                     ELSE DictGet(defaults, status_code, "Error"),
          defaults |-> defaults]
    ELSE [raised |-> FALSE, status_code |-> 0, detail |-> "",
          defaults |-> defaults]

----------------------------------------------------------------------------
(* A request slot.  inputs, returned, raised_by, invoked, dependency_calls,
   suspended_at and checked_at are history: the booleans handed to
   check_permission, what solving each guard's predicate gave, which function
   raised, the number of predicate invocations and of get_current_user
   invocations, and the number of set_default_message calls made before the
   last suspension and the last check. *)
Idle ==
    [state |-> "idle", route |-> <<>>, idx |-> 0, permitted |-> FALSE,
     outcome |-> "none", status_code |-> 0, body |-> "",
     inputs |-> <<>>, returned |-> <<>>, raised_by |-> "none",
     invoked |-> 0, dependency_calls |-> 0,
     suspended_at |-> 0, checked_at |-> 0]

Init ==
    /\ registries = <<>>
    /\ calls = <<>>
    /\ guards = <<>>
    /\ requests = [q \in ReqIds |-> Idle]

(* Routes over the guards created so far: 1..deps distinct guards. *)
Routes(deps) ==
    {s \in UNION {[1..n -> DOMAIN guards] : n \in 1..deps} :
        \A i, j \in DOMAIN s : i # j => s[i] # s[j]}

GuardOf(req) == guards[req.route[req.idx]]

(* Faulty variant: the predicate is called directly instead of through
   Depends, so an async predicate hands over its coroutine, which is truthy. *)
dependency_result_unawaited(req, result) ==
    IF GuardOf(req).is_permitted # "def"
    THEN [req EXCEPT !.state = "pending", !.permitted = TRUE]
    ELSE IF result = "raise"
    THEN [req EXCEPT !.state = "done", !.outcome = "failed",
                     !.status_code = HTTP_401_UNAUTHORIZED,
                     !.body = "Unauthorized"]
    ELSE [req EXCEPT !.state = "pending", !.permitted = (result = "True")]

(* Faulty variant: an exception of the predicate is caught and read as a
   denial (try: ... except: permitted = False). *)
dependency_result_as_denial(req, result) ==
    [req EXCEPT !.state = "pending", !.permitted = (result = "True")]

(* What the host makes of the outcome of the predicate a guard depends on
   (permitted: bool = Depends(is_permitted)): a boolean is handed to
   check_permission, an exception ends the request. *)
dependency_result(req, result) ==
    IF result = "raise"
    THEN [req EXCEPT !.state = "done", !.outcome = "failed",
                     !.status_code = HTTP_401_UNAUTHORIZED,
                     !.body = "Unauthorized"]
    ELSE [req EXCEPT !.state = "pending", !.permitted = (result = "True")]

(* Faulty variant: the HTTPException is built but not raised (return for
   raise), so the request goes on. *)
after_check_continue(req, r) ==
    IF req.idx < Len(req.route)
    THEN [req EXCEPT !.state = "resolving", !.idx = @ + 1, !.permitted = FALSE]
    ELSE [req EXCEPT !.state = "handler", !.permitted = FALSE]

(* What the host makes of a call of check_permission that returned `r`:
   a raised HTTPException is the response; otherwise the next dependency of
   the route is solved, and after the last one the route handler runs. *)
after_check(req, r) ==
    IF r.raised
    THEN [req EXCEPT !.state = "done", !.outcome = "rejected",
                     !.status_code = r.status_code, !.body = r.detail,
                     !.permitted = FALSE]
    ELSE IF req.idx < Len(req.route)
    THEN [req EXCEPT !.state = "resolving", !.idx = @ + 1, !.permitted = FALSE]
    ELSE [req EXCEPT !.state = "handler", !.permitted = FALSE]

----------------------------------------------------------------------------
(* permission(): a new registry. *)
permission(S) ==
    /\ Len(registries) < S.registries
    /\ registries' = Append(registries, Permission_init)
    /\ UNCHANGED <<calls, guards, requests>>

(* registry.set_default_message(status_code, message) *)
SetDefaultMessage(self, status_code, message) ==
    /\ Len(calls) < MaxSets
    /\ registries' = set_default_message(registries, self, status_code, message)
    /\ calls' = Append(calls, [self |-> self, status_code |-> status_code,
                               message |-> message])
    /\ UNCHANGED <<guards, requests>>

(* registry(is_permitted, message=..., status_code=...): a new guard.  args
   is history: the keyword arguments as passed. *)
CreateGuard(S, self, is_permitted, message, status_code) ==
    /\ Len(guards) < S.guards
    /\ guards' = Append(guards,
                        Permission_call(self, is_permitted, message, status_code)
                            @@ [args |-> [message |-> message,
                                          status_code |-> status_code]])
    /\ UNCHANGED <<registries, calls, requests>>

(* A request arrives for a route declared with dependencies=deps. *)
StartRequest(q, deps) ==
    /\ requests[q].state = "idle"
    /\ requests' = [requests EXCEPT ![q] =
                        [Idle EXCEPT !.state = "resolving", !.route = deps, !.idx = 1]]
    /\ UNCHANGED <<registries, calls, guards>>

(* The host calls a predicate that does not await (def, or async def as in
   the tests): it returns or raises before anything else runs. *)
CallPredicate(q, result) ==
    /\ requests[q].state = "resolving"
    /\ GuardOf(requests[q]).is_permitted \in {"def", "async def"}
    /\ requests' = [requests EXCEPT ![q] =
                        dependency_result(
                            [@ EXCEPT !.invoked = @ + 1,
                                      !.returned = Append(@, result),
                                      !.raised_by = IF result = "raise"
                                                    THEN "predicate" ELSE @],
                            result)]
    /\ UNCHANGED <<registries, calls, guards>>

(* The predicate depends on get_current_user: the host invokes it first, and
   it suspends (await asyncio.sleep). *)
AwaitDependency(q) ==
    /\ requests[q].state = "resolving"
    /\ GuardOf(requests[q]).is_permitted = "async def, Depends"
    /\ requests' = [requests EXCEPT ![q] =
                        [@ EXCEPT !.state = "awaiting dependency",
                                  !.dependency_calls = @ + 1,
                                  !.suspended_at = Len(calls)]]
    /\ UNCHANGED <<registries, calls, guards>>

(* get_current_user resumes.  An unknown user: it raises HTTPException(401)
   and the predicate is never invoked.  A known user: it returns, the host
   invokes the predicate with the user, and the predicate suspends in turn. *)
ResumeDependency(q, found) ==
    /\ requests[q].state = "awaiting dependency"
    /\ requests' = [requests EXCEPT ![q] =
                        IF found
                        THEN [@ EXCEPT !.state = "suspended", !.invoked = @ + 1,
                                       !.suspended_at = Len(calls)]
                        ELSE dependency_result(
                                [@ EXCEPT !.returned = Append(@, "raise"),
                                          !.raised_by = "dependency"], "raise")]
    /\ UNCHANGED <<registries, calls, guards>>

(* The suspended predicate resumes and returns or raises. *)
ResumePredicate(q, result) ==
    /\ requests[q].state = "suspended"
    /\ requests' = [requests EXCEPT ![q] =
                        dependency_result(
                            [@ EXCEPT !.returned = Append(@, result),
                                      !.raised_by = IF result = "raise"
                                                    THEN "predicate" ELSE @],
                            result)]
    /\ UNCHANGED <<registries, calls, guards>>

(* The host calls check_permission(permitted) of the current guard. *)
CheckPermission(q) ==
    /\ requests[q].state = "pending"
    /\ LET g == GuardOf(requests[q])
           r == check_permission(registries[g.self], g.message, g.status_code,
                                 requests[q].permitted)
       IN /\ registries' = [registries EXCEPT ![g.self] = r.defaults]
          /\ requests' = [requests EXCEPT ![q] =
                            after_check(
                                [@ EXCEPT !.inputs = Append(@, requests[q].permitted),
                                          !.checked_at = Len(calls)], r)]
    /\ UNCHANGED <<calls, guards>>

(* Every dependency was solved: the route handler runs. *)
RunHandler(q) ==
    /\ requests[q].state = "handler"
    /\ requests' = [requests EXCEPT ![q] =
                        [@ EXCEPT !.state = "done", !.outcome = "allowed",
                                  !.status_code = HTTP_200_OK,
                                  !.body = "success"]]
    /\ UNCHANGED <<registries, calls, guards>>

(* One step of an application of scope S. *)
Step(S) ==
    \/ permission(S)
    \/ \E self \in DOMAIN registries, c \in S.set_codes, m \in S.set_texts :
            SetDefaultMessage(self, c, m)
    \/ \E self \in DOMAIN registries, p \in PredicateKinds,
          m \in GuardMessages, c \in S.guard_codes :
            CreateGuard(S, self, p, m, c)
    \/ \E q \in S.slots, deps \in Routes(S.deps) : StartRequest(q, deps)
    \/ \E q \in S.slots, result \in PredicateResults : CallPredicate(q, result)
    \/ \E q \in S.slots : AwaitDependency(q)
    \/ \E q \in S.slots, found \in BOOLEAN : ResumeDependency(q, found)
    \/ \E q \in S.slots, result \in PredicateResults : ResumePredicate(q, result)
    \/ \E q \in S.slots : CheckPermission(q)
    \/ \E q \in S.slots : RunHandler(q)

Next == Step(ScopeApp)
NextRegistries == Step(ScopeRegistries)
NextRoute == Step(ScopeRoute)
NextPair == Step(ScopePair)

(* One application with one guard on one route, one request at a time. *)
Spec == Init /\ [][Next]_vars
(* Two registries, a guard of either, one request. *)
SpecRegistries == Init /\ [][NextRegistries]_vars
(* One request through a route that carries up to two guards. *)
SpecRoute == Init /\ [][NextRoute]_vars
(* Two guards, each on a route of its own, and two requests in flight. *)
SpecPair == Init /\ [][NextPair]_vars

----------------------------------------------------------------------------
(* What the documentation promises, stated over the history of calls.       *)

(* The last of the first n set_default_message calls made on registry `self`
   for `code`; 0 when there is none. *)
LastCall(self, code, n) ==
    LET ks == {k \in 1..n : calls[k].self = self /\ calls[k].status_code = code}
    IN IF ks = {} THEN 0 ELSE CHOOSE k \in ks : \A j \in ks : j <= k

BuiltIn(code) ==
    IF code = 403 THEN Some("Forbidden")
    ELSE IF code = 404 THEN Some("Not Found")
    ELSE None

(* The entry registry `self` should hold for `code` after n calls. *)
ExpectedEntry(self, code, n) ==
    LET k == LastCall(self, code, n)
    IN IF k > 0 THEN Some(calls[k].message) ELSE BuiltIn(code)

ExpectedDefault(self, code, n) ==
    LET e == ExpectedEntry(self, code, n)
    IN IF e = None THEN "Error" ELSE e[1]

(* The status code and the message guard g was configured with. *)
ConfiguredStatus(g) ==
    IF g.args.status_code = Omitted THEN 403 ELSE g.args.status_code[1]

HasExplicitMessage(g) == g.args.message # None /\ g.args.message # Some("")

ExpectedDetail(g, n) ==
    IF HasExplicitMessage(g) THEN g.args.message[1]
    ELSE ExpectedDefault(g.self, ConfiguredStatus(g), n)

Rejected(q) == requests[q].outcome = "rejected"

(* C1: a rejection carries the guard's configured status code (403 when none
   was passed) and, as message, the guard's explicit message when one is set
   (neither None nor ""), otherwise the registry's default for that code at
   the time of the check, otherwise "Error". *)
C1_RejectionStatusAndMessage ==
    \A q \in ReqIds :
        Rejected(q) =>
            LET req == requests[q]
                g == GuardOf(req)
            IN /\ req.status_code = ConfiguredStatus(g)
               /\ req.body = ExpectedDetail(g, req.checked_at)

(* A rejection by a guard created with neither message nor status_code. *)
C1_Witness ==
    \E q \in ReqIds :
        /\ Rejected(q)
        /\ GuardOf(requests[q]).args = [message |-> None, status_code |-> Omitted]
        /\ requests[q].status_code = 403
        /\ requests[q].body = "Forbidden"

AllTrue(req) ==
    /\ Len(req.returned) = Len(req.route)
    /\ \A i \in DOMAIN req.returned : req.returned[i] = "True"

(* C2: a rejection exists only for a predicate that resolved to false; when
   the predicates of the route resolved to true and the checks ran, no
   rejection was raised, the handler is reached with no response set, and its
   own response (200, "success") is what is returned. *)
C2_PermittedProceeds ==
    \A q \in ReqIds :
        LET req == requests[q]
        IN req.state # "idle" =>
            /\ Rejected(q) => req.returned[req.idx] = "False"
            /\ (AllTrue(req) /\ req.state # "pending") =>
                    /\ req.state \in {"handler", "done"}
                    /\ req.state = "handler" =>
                            req.outcome = "none" /\ req.status_code = 0 /\ req.body = ""
                    /\ req.state = "done" =>
                            /\ req.outcome = "allowed"
                            /\ req.status_code = 200
                            /\ req.body = "success"

(* A permitted request through a guard that has an explicit message. *)
C2_Witness ==
    \E q \in ReqIds :
        /\ requests[q].state = "done"
        /\ requests[q].outcome = "allowed"
        /\ requests[q].inputs = <<TRUE>>
        /\ HasExplicitMessage(GuardOf(requests[q]))
        /\ requests[q].status_code = 200

(* C3: for a guard without an explicit message, the rejection carries the
   message of the most recent set_default_message call made for the guard's
   registry and status code before the check ran, whenever that call was
   made: before the guard was created, after it, or while the predicate of
   the request was suspended. *)
C3_LookupAtEvaluationTime ==
    \A q \in ReqIds :
        Rejected(q) =>
            LET req == requests[q]
                g == GuardOf(req)
            IN ~HasExplicitMessage(g) =>
                \A k \in 1..req.checked_at :
                    k = LastCall(g.self, ConfiguredStatus(g), req.checked_at)
                        => req.body = calls[k].message

(* The default was set while the predicate was suspended, hence after the
   guard was created, and the rejection carries it and not the message the
   lookup would have given at the suspension. *)
C3_Witness ==
    \E q \in ReqIds :
        /\ Rejected(q)
        /\ LET req == requests[q]
               g == GuardOf(req)
               k == LastCall(g.self, ConfiguredStatus(g), req.checked_at)
           IN /\ ~HasExplicitMessage(g)
              /\ g.is_permitted = "async def, Depends"
              /\ k > req.suspended_at
              /\ req.body = calls[k].message
              /\ req.body # ExpectedDefault(g.self, ConfiguredStatus(g),
                                            req.suspended_at)

(* C4: every registry holds, for each status code, the message of the most
   recent set_default_message call made on it for that code, else the
   built-in value, else no entry; the codes are any integers. *)
C4_LastWriteWins ==
    \A r \in DOMAIN registries :
        \A c \in StatusCodes \cup {0} \cup DOMAIN registries[r] :
            LET e == ExpectedEntry(r, c, Len(calls))
            IN /\ (c \in DOMAIN registries[r]) <=> (e # None)
               /\ (c \in DOMAIN registries[r]) => registries[r][c] = e[1]

(* A code set twice on one registry, with different messages, and a code
   that is not an HTTP status code. *)
C4_Witness ==
    /\ Len(calls) = 2
    /\ calls[1].self = calls[2].self
    /\ calls[1].message # calls[2].message
    /\ \/ /\ calls[1].status_code = 403
          /\ calls[2].status_code = 403
          /\ registries[calls[1].self][403] = calls[2].message
       \/ /\ calls[1].status_code = 0
          /\ calls[2].status_code = 0
          /\ registries[calls[1].self][0] = calls[2].message

Decided(req) == req.state = "done" /\ req.outcome \in {"allowed", "rejected"}

SameRegistryView(self, n, m) ==
    \A c \in StatusCodes : ExpectedEntry(self, c, n) = ExpectedEntry(self, c, m)

(* C5: a request through a guard with a plain predicate and a request through
   a guard with an async predicate (suspending or not), the guards configured
   alike and the
   predicates yielding the same boolean, with the same registry state at
   their checks, end alike: same decision, same status code, same message. *)
C5_SyncAsyncEquivalent ==
    \A q1, q2 \in ReqIds :
        LET r1 == requests[q1]
            r2 == requests[q2]
        IN (Decided(r1) /\ Decided(r2)) =>
            LET g1 == GuardOf(r1)
                g2 == GuardOf(r2)
            IN ( /\ g1.is_permitted = "def"
                 /\ g2.is_permitted # "def"
                 /\ g1.self = g2.self
                 /\ g1.args = g2.args
                 /\ r1.returned = r2.returned
                 /\ SameRegistryView(g1.self, r1.checked_at, r2.checked_at) )
               => /\ r1.outcome = r2.outcome
                  /\ r1.status_code = r2.status_code
                  /\ r1.body = r2.body

(* A plain predicate and a suspending one yielded false, and both requests
   were rejected alike. *)
C5_Witness ==
    \E q1, q2 \in ReqIds :
        /\ Rejected(q1)
        /\ Rejected(q2)
        /\ GuardOf(requests[q1]).is_permitted = "def"
        /\ GuardOf(requests[q2]).is_permitted = "async def, Depends"
        /\ GuardOf(requests[q1]).args = GuardOf(requests[q2]).args
        /\ requests[q1].body = requests[q2].body
        /\ requests[q1].status_code = requests[q2].status_code

(* C6: the handler is reached only when every guard of the route received
   permitted = true; the first guard that receives false ends the request: no
   further predicate is invoked, no further check runs, the handler does not
   run, and the response is that guard's status code and resolved message. *)
C6_HandlerOnlyIfAllPermit ==
    \A q \in ReqIds :
        LET req == requests[q]
        IN req.state # "idle" =>
            /\ (req.state = "handler" \/ req.outcome = "allowed") =>
                    /\ Len(req.inputs) = Len(req.route)
                    /\ \A i \in DOMAIN req.inputs : req.inputs[i]
            /\ \A i \in DOMAIN req.inputs :
                    ~req.inputs[i] =>
                        /\ i = Len(req.inputs)
                        /\ req.idx = i
                        /\ req.invoked = i
                        /\ req.state = "done"
                        /\ req.outcome = "rejected"
                        /\ req.status_code = ConfiguredStatus(guards[req.route[i]])
                        /\ req.body = ExpectedDetail(guards[req.route[i]],
                                                     req.checked_at)

(* The second of two guards with different status codes denied. *)
C6_Witness ==
    \E q \in ReqIds :
        LET req == requests[q]
        IN /\ Len(req.route) = 2
           /\ req.inputs = <<TRUE, FALSE>>
           /\ req.outcome = "rejected"
           /\ guards[req.route[1]].status_code # guards[req.route[2]].status_code
           /\ req.status_code = guards[req.route[2]].status_code

(* The guards among the first i of the route whose predicate depends on
   get_current_user. *)
DependentGuards(req, i) ==
    {j \in 1..i : guards[req.route[j]].is_permitted = "async def, Depends"}

(* C7: when the predicate of a guard, or the get_current_user it depends on,
   raises, the request ends there with the failure's own response (401,
   "Unauthorized"): the check of that guard does not run, the guard raises
   nothing, nothing is invoked again, and when it is get_current_user that
   raised the predicate is not invoked at all. *)
C7_PredicateFailurePropagates ==
    \A q \in ReqIds :
        LET req == requests[q]
        IN \A i \in DOMAIN req.returned :
            req.returned[i] = "raise" =>
                /\ i = Len(req.returned)
                /\ req.idx = i
                /\ req.raised_by \in {"dependency", "predicate"}
                /\ req.invoked = IF req.raised_by = "dependency" THEN i - 1 ELSE i
                /\ req.dependency_calls = Cardinality(DependentGuards(req, i))
                /\ Len(req.inputs) = i - 1
                /\ req.state = "done"
                /\ req.outcome = "failed"
                /\ req.status_code = 401
                /\ req.body = "Unauthorized"

(* The first guard of a route permitted; get_current_user, on which the
   predicate of the second depends, raised, and that predicate never ran. *)
C7_Witness ==
    \E q \in ReqIds :
        LET req == requests[q]
        IN /\ req.returned = <<"True", "raise">>
           /\ req.inputs = <<TRUE>>
           /\ guards[req.route[2]].is_permitted = "async def, Depends"
           /\ req.raised_by = "dependency"
           /\ req.invoked = 1
           /\ req.outcome = "failed"

(* C8: a step of a request changes that request only: not the registries,
   not the guards, not another request.  A request starts with nothing kept
   from earlier ones, and its check ends in exactly one of allowed (the
   request goes on) or rejected, decided by its own boolean and the registry
   as it is at the check. *)
C8_EvaluationKeepsNoState ==
    [][\A q \in ReqIds :
        requests'[q] # requests[q] =>
            /\ registries' = registries
            /\ guards' = guards
            /\ calls' = calls
            /\ \A p \in ReqIds \ {q} : requests'[p] = requests[p]
            /\ requests[q].state = "idle" =>
                    /\ requests'[q].state = "resolving"
                    /\ requests'[q].outcome = "none"
                    /\ requests'[q].inputs = <<>>
                    /\ requests'[q].returned = <<>>
            /\ requests[q].state = "pending" =>
                    LET g == GuardOf(requests[q])
                    IN IF requests[q].permitted
                       THEN /\ requests'[q].state \in {"resolving", "handler"}
                            /\ requests'[q].outcome = "none"
                       ELSE /\ requests'[q].state = "done"
                            /\ requests'[q].outcome = "rejected"
                            /\ requests'[q].status_code = ConfiguredStatus(g)
                            /\ requests'[q].body = ExpectedDetail(g, Len(calls))
      ]_vars

(* Two requests through the same guard: one answered 200, the other rejected. *)
C8_Witness ==
    \E q1, q2 \in ReqIds :
        /\ requests[q1].state = "done"
        /\ requests[q1].outcome = "allowed"
        /\ requests[q1].status_code = 200
        /\ Rejected(q2)
        /\ requests[q1].route = requests[q2].route
        /\ requests[q2].status_code = 403

(* C9 as claimed: a guard created with message = "" rejects with the
   registry's default for its status code at the check (or "Error"), and
   never with the empty string. *)
C9_NeverEmpty ==
    \A q \in ReqIds :
        Rejected(q) =>
            LET req == requests[q]
                g == GuardOf(req)
            IN g.args.message = Some("") =>
                /\ req.body = ExpectedDefault(g.self, ConfiguredStatus(g),
                                              req.checked_at)
                /\ req.body # ""

(* C9, amended: a guard created with message = "" rejects with the registry's
   default for its status code at the check (or "Error"); the message is the
   empty string only when that default was itself set to the empty string. *)
C9_EmptyMessageIsNoOverride ==
    \A q \in ReqIds :
        Rejected(q) =>
            LET req == requests[q]
                g == GuardOf(req)
                k == LastCall(g.self, ConfiguredStatus(g), req.checked_at)
            IN g.args.message = Some("") =>
                /\ req.body = ExpectedDefault(g.self, ConfiguredStatus(g),
                                              req.checked_at)
                /\ req.body = "" => (k > 0 /\ calls[k].message = "")

(* A guard with message = "" and status code 418, for which the registry has
   no entry, rejected with "Error". *)
C9_Witness ==
    \E q \in ReqIds :
        /\ Rejected(q)
        /\ GuardOf(requests[q]).args.message = Some("")
        /\ requests[q].status_code = 418
        /\ requests[q].body = "Error"

(* C10: a new registry starts from the two built-in defaults and leaves the
   others as they are; the mapping of a registry changes only by a
   set_default_message call made on that registry; and a guard without an
   explicit message rejects with the default of its own registry, whatever
   was set on another. *)
C10_RegistriesIndependent ==
    [][/\ \A r \in DOMAIN registries :
              /\ r \in DOMAIN registries'
              /\ registries'[r] # registries[r] =>
                    /\ Len(calls') = Len(calls) + 1
                    /\ calls'[Len(calls')].self = r
       /\ \A r \in DOMAIN registries' \ DOMAIN registries :
              /\ DOMAIN registries'[r] = {403, 404}
              /\ registries'[r][403] = "Forbidden"
              /\ registries'[r][404] = "Not Found"
       /\ \A q \in ReqIds :
              (requests'[q].outcome = "rejected" /\ requests[q].outcome # "rejected") =>
                    LET g == GuardOf(requests[q])
                    IN ~HasExplicitMessage(g) =>
                        requests'[q].body =
                            ExpectedDefault(g.self, ConfiguredStatus(g), Len(calls))
      ]_vars

(* Two registries; the default of a code was set on one, and a guard of the
   other, with that code, rejected with the built-in default. *)
C10_Witness ==
    \E q \in ReqIds :
        /\ Rejected(q)
        /\ Len(registries) = 2
        /\ LET req == requests[q]
               g == GuardOf(req)
           IN /\ ~HasExplicitMessage(g)
              /\ g.status_code = 403
              /\ req.body = "Forbidden"
              /\ \E k \in 1..req.checked_at :
                    /\ calls[k].self # g.self
                    /\ calls[k].status_code = 403
                    /\ calls[k].message # "Forbidden"

====
